---- MODULE Spec2Model ----
(***************************************************************************)
(* Block builders of python/ray/experimental/data/impl/arrow_block.py:     *)
(* ArrowBlockBuilder (columnar), DelegatingArrowBlockBuilder (lazy choice  *)
(* of the representation) and the pyarrow operations they call.  Every     *)
(* method call of the single owner of a builder is one atomic action.      *)
(***************************************************************************)
EXTENDS Integers, Sequences, FiniteSets, TLC

VARIABLES target,    \* class of the object the caller holds: "delegating" | "arrow"
          builder,   \* DelegatingArrowBlockBuilder._builder, or the ArrowBlockBuilder itself
          nalloc,    \* number of builder objects constructed so far (object identity)
          ret,       \* outcome of the last method call (return value or raised exception)
          log,       \* the calls made so far, in order, with their outcome
          inputs,    \* the rows a built block was made from
          table,     \* ArrowBlockAccessor._table
          iters,     \* the Iter objects returned by iter_rows(), by the name the caller binds them to
          sliced     \* outcome of the last slice() call

accVars == <<inputs, table, iters, sliced>>

vars == <<target, builder, nalloc, ret, log, inputs, table, iters, sliced>>

\* Number of method calls made on the builder in one run.
MaxCalls == 4

\* Number of rows a block read through an accessor is built from.
MaxRows == 3

(***************************************************************************)
(* Python values.  A scalar is [t, v]; t is the Python type as pyarrow's   *)
(* type inference sees it.                                                 *)
(***************************************************************************)
IntV(n) == [t |-> "int", v |-> n]
StrV(n) == [t |-> "str", v |-> n]
\* object(): pyarrow raises ArrowInvalid (type not recognized)
Obj == [t |-> "obj", v |-> 0]
\* a value pyarrow rejects with ArrowTypeError, a TypeError (e.g. ["s", 1])
Mix == [t |-> "mix", v |-> 0]

\* A dict is the sequence of its (key, value) pairs in insertion order.
KV(k, v) == [k |-> k, v |-> v]

\* pyarrow.Table: column names, column types and column arrays, in order.
Table(names, types, cols) == [names |-> names, types |-> types, cols |-> cols]

\* pyarrow.Table.from_pydict({})
EmptyTable == Table(<<>>, <<>>, <<>>)

\* pyarrow.Table.num_rows
TableNumRows(t) == IF Len(t.cols) = 0 THEN 0 ELSE Len(t.cols[1])

\* isinstance(block, pyarrow.Table) blocks and list blocks
TableBlock(t) == [kind |-> "table", table |-> t, list |-> <<>>]
ListBlock(l) == [kind |-> "list", table |-> EmptyTable, list |-> l]

\* Items handed to add(): a dict, an ArrowRow over a one-row table, or
\* any other object (kind "other", e.g. the str "x").
DictItem(d) == [kind |-> "dict", d |-> d, row |-> EmptyTable]
RowItem(t) == [kind |-> "row", d |-> <<>>, row |-> t]
OtherItem == [kind |-> "other", d |-> <<>>, row |-> EmptyTable]
\* placeholder of a log entry of a call that takes no item
NoItem == [kind |-> "none", d |-> <<>>, row |-> EmptyTable]

Items ==
  { OtherItem,
    DictItem(<<>>),
    DictItem(<<KV("a", IntV(1))>>),
    DictItem(<<KV("a", IntV(2))>>),
    DictItem(<<KV("a", StrV(1))>>),
    DictItem(<<KV("a", Obj)>>),
    DictItem(<<KV("a", Mix)>>),
    DictItem(<<KV("b", IntV(1))>>),
    DictItem(<<KV("a", IntV(1)), KV("b", IntV(2))>>),
    RowItem(Table(<<"a">>, <<"int">>, <<(<<IntV(3)>>)>>)) }

Blocks ==
  { TableBlock(EmptyTable),
    TableBlock(Table(<<"a">>, <<"int">>, <<(<<IntV(1), IntV(2)>>)>>)),
    ListBlock(<<OtherItem>>) }

(***************************************************************************)
(* pyarrow operations, as far as the builders use them.  A result is       *)
(* [err, table]; err = "none" when the call returns.                       *)
(***************************************************************************)
Ok(t) == [err |-> "none", table |-> t]
Raise(e) == [err |-> e, table |-> EmptyTable]

\* Conversion of one Python list to an array (pyarrow.array): the error it
\* raises, or "none".  Type inference scans the whole list first.
ArrayError(vals) ==
  IF \E i \in 1..Len(vals) : vals[i].t = "obj" THEN "ArrowInvalid"
  ELSE IF \E i \in 1..Len(vals) : vals[i].t = "mix" THEN "TypeError"
  ELSE IF \A i \in 1..Len(vals) : vals[i].t = vals[1].t THEN "none"
  ELSE IF vals[1].t = "int" THEN "ArrowInvalid"
  ELSE "TypeError"

ArrayType(vals) == IF Len(vals) = 0 THEN "null" ELSE vals[1].t

\* pyarrow.Table.from_pydict(columns): columns is the ordered mapping
\* name -> list, here a sequence of [name, vals].
FromPydict(columns) ==
  LET n == Len(columns)
      bad == {i \in 1..n : ArrayError(columns[i].vals) # "none"}
      first == CHOOSE i \in bad : \A j \in bad : i <= j
  IN IF bad # {} THEN Raise(ArrayError(columns[first].vals))
     ELSE IF \E i \in 1..n : Len(columns[i].vals) # Len(columns[1].vals)
       THEN Raise("ArrowInvalid")
     ELSE Ok(Table([i \in 1..n |-> columns[i].name],
                   [i \in 1..n |-> ArrayType(columns[i].vals)],
                   [i \in 1..n |-> columns[i].vals]))

\* pyarrow.concat_tables(tables), len(tables) > 1: the schemas must be equal.
RECURSIVE ConcatCols(_, _)
ConcatCols(tables, c) ==
  IF Len(tables) = 0 THEN <<>>
  ELSE tables[1].cols[c] \o ConcatCols(Tail(tables), c)

ConcatTables(tables) ==
  IF \E i \in 1..Len(tables) :
       \/ tables[i].names # tables[1].names
       \/ tables[i].types # tables[1].types
  THEN Raise("ArrowInvalid")
  ELSE Ok(Table(tables[1].names, tables[1].types,
                [c \in 1..Len(tables[1].names) |-> ConcatCols(tables, c)]))

(***************************************************************************)
(* ArrowRow                                                                *)
(***************************************************************************)
\* ArrowRow.as_pydict: {k: v[0] for k, v in self._row.to_pydict().items()}
as_pydict(item) ==
  DictItem([i \in 1..Len(item.row.names) |->
              KV(item.row.names[i], item.row.cols[i][1])])

\* ArrowRow.items: the (key, value) pairs of as_pydict(), in column order
ArrowRow_items(item) == as_pydict(item).d

(***************************************************************************)
(* ArrowBlockBuilder.  A builder object is a record; the fields of the     *)
(* other class are kept at their empty value.                              *)
(***************************************************************************)
NoBuilder ==
  [kind |-> "none", id |-> 0, columns |-> <<>>, tables |-> <<>>,
   num_rows |-> 0, items |-> <<>>]

\* ArrowBlockBuilder.__init__
ArrowBlockBuilder_init(id) ==
  [kind |-> "arrow", id |-> id, columns |-> <<>>, tables |-> <<>>,
   num_rows |-> 0, items |-> <<>>]

\* A column met for the first time is put before the others.
ColumnAppend_NewFirst(columns, key, value) ==
  IF \E i \in 1..Len(columns) : columns[i].name = key
  THEN [i \in 1..Len(columns) |->
          IF columns[i].name = key
          THEN [name |-> key, vals |-> Append(columns[i].vals, value)]
          ELSE columns[i]]
  ELSE <<[name |-> key, vals |-> <<value>>]>> \o columns

\* self._columns[key].append(value) on the defaultdict(list)
ColumnAppend(columns, key, value) ==
  IF \E i \in 1..Len(columns) : columns[i].name = key
  THEN [i \in 1..Len(columns) |->
          IF columns[i].name = key
          THEN [name |-> key, vals |-> Append(columns[i].vals, value)]
          ELSE columns[i]]
  ELSE Append(columns, [name |-> key, vals |-> <<value>>])

\* for key, value in item.items(): self._columns[key].append(value)
RECURSIVE ColumnsExtend(_, _)
ColumnsExtend(columns, d) ==
  IF Len(d) = 0 THEN columns
  ELSE ColumnsExtend(ColumnAppend(columns, d[1].k, d[1].v), Tail(d))

\* add without the isinstance(item, dict) check: any other object is taken
\* as a mapping without keys.
ArrowBlockBuilder_add_NoCheck(b, item0) ==
  LET item == IF item0.kind = "row" THEN as_pydict(item0) ELSE item0
  IN [b |-> [b EXCEPT !.columns = ColumnsExtend(b.columns, item.d),
                      !.num_rows = b.num_rows + 1],
      err |-> "none"]

\* ArrowBlockBuilder.add: [b, err]
ArrowBlockBuilder_add(b, item0) ==
  LET item == IF item0.kind = "row" THEN as_pydict(item0) ELSE item0
  IN IF item.kind # "dict"
     THEN [b |-> b, err |-> "ValueError"]
     ELSE [b |-> [b EXCEPT !.columns = ColumnsExtend(b.columns, item.d),
                           !.num_rows = b.num_rows + 1],
           err |-> "none"]

\* The block is appended before its type is checked.
ArrowBlockBuilder_add_block_AppendFirst(b, block) ==
  IF block.kind # "table"
  THEN [b |-> [b EXCEPT !.tables = Append(b.tables, block.table)],
        err |-> "AssertionError"]
  ELSE [b |-> [b EXCEPT !.tables = Append(b.tables, block.table),
                        !.num_rows = b.num_rows + TableNumRows(block.table)],
        err |-> "none"]

\* ArrowBlockBuilder.add_block: [b, err]
ArrowBlockBuilder_add_block(b, block) ==
  IF block.kind # "table"
  THEN [b |-> b, err |-> "AssertionError"]
  ELSE [b |-> [b EXCEPT !.tables = Append(b.tables, block.table),
                        !.num_rows = b.num_rows + TableNumRows(block.table)],
        err |-> "none"]

\* build with the merged tables put before the table of the added rows
ArrowBlockBuilder_build_TablesFirst(b) ==
  LET made == FromPydict(b.columns)
      tables == b.tables \o (IF Len(b.columns) > 0 THEN <<made.table>> ELSE <<>>)
  IN IF Len(b.columns) > 0 /\ made.err # "none" THEN made
     ELSE IF Len(tables) > 1 THEN ConcatTables(tables)
     ELSE IF Len(tables) > 0 THEN Ok(tables[1])
     ELSE FromPydict(<<>>)

\* ArrowBlockBuilder.build: [err, table]; the builder is not assigned to
ArrowBlockBuilder_build(b) ==
  LET made == FromPydict(b.columns)
      tables == (IF Len(b.columns) > 0 THEN <<made.table>> ELSE <<>>) \o b.tables
  IN IF Len(b.columns) > 0 /\ made.err # "none" THEN made
     ELSE IF Len(tables) > 1 THEN ConcatTables(tables)
     ELSE IF Len(tables) > 0 THEN Ok(tables[1])
     ELSE FromPydict(<<>>)

\* ArrowBlockBuilder.num_rows
ArrowBlockBuilder_num_rows(b) == b.num_rows

(***************************************************************************)
(* SimpleBlockBuilder and BlockAccessor.for_block (block_builder.py and    *)
(* block.py): a list of opaque row objects.                                *)
(***************************************************************************)
SimpleBlockBuilder_init(id) ==
  [kind |-> "simple", id |-> id, columns |-> <<>>, tables |-> <<>>,
   num_rows |-> 0, items |-> <<>>]

SimpleBlockBuilder_add(b, item) ==
  [b |-> [b EXCEPT !.items = Append(b.items, item)], err |-> "none"]

SimpleBlockBuilder_add_block(b, block) ==
  IF block.kind # "list"
  THEN [b |-> b, err |-> "AssertionError"]
  ELSE [b |-> [b EXCEPT !.items = b.items \o block.list], err |-> "none"]

SimpleBlockBuilder_build(b) == b.items

SimpleBlockBuilder_num_rows(b) == Len(b.items)

\* ArrowBlockAccessor.builder (static)
ArrowBlockAccessor_builder(id) == ArrowBlockBuilder_init(id)

\* BlockAccessor.for_block(block).builder()
for_block_builder(block, id) ==
  IF block.kind = "table" THEN ArrowBlockAccessor_builder(id)
  ELSE SimpleBlockBuilder_init(id)

(***************************************************************************)
(* Calls through the BlockBuilder interface on a concrete builder.         *)
(***************************************************************************)
NoneBlock == [kind |-> "none", table |-> EmptyTable, list |-> <<>>]

\* self._builder.add(item)
Builder_add(b, item) ==
  IF b.kind = "arrow" THEN ArrowBlockBuilder_add(b, item)
  ELSE SimpleBlockBuilder_add(b, item)

\* self._builder.add_block(block)
Builder_add_block(b, block) ==
  IF b.kind = "arrow" THEN ArrowBlockBuilder_add_block(b, block)
  ELSE SimpleBlockBuilder_add_block(b, block)

\* self._builder.build(): [err, block]
Builder_build(b) ==
  IF b.kind = "arrow"
  THEN LET r == ArrowBlockBuilder_build(b)
       IN [err |-> r.err,
           block |-> IF r.err = "none" THEN TableBlock(r.table) ELSE NoneBlock]
  ELSE [err |-> "none", block |-> ListBlock(SimpleBlockBuilder_build(b))]

\* self._builder.num_rows()
Builder_num_rows(b) ==
  IF b.kind = "arrow" THEN ArrowBlockBuilder_num_rows(b)
  ELSE SimpleBlockBuilder_num_rows(b)

(***************************************************************************)
(* DelegatingArrowBlockBuilder.  b is self._builder (NoBuilder for None),  *)
(* n the number of builder objects constructed so far.                     *)
(***************************************************************************)
\* Only TypeError is caught.
TrialCaught_OnlyTypeError == {"TypeError"}

\* except (TypeError, pyarrow.lib.ArrowInvalid)
TrialCaught == {"TypeError", "ArrowInvalid"}

\* check = ArrowBlockBuilder(); check.add(item); check.build(): the error
\* raised in the try block, or "none"
TrialError(item, id) ==
  LET added == ArrowBlockBuilder_add(ArrowBlockBuilder_init(id), item)
  IN IF added.err # "none" THEN added.err
     ELSE ArrowBlockBuilder_build(added.b).err

\* The trial builder is kept as the real one: the item is then added twice.
DelegatingSelect_KeepsCheck(n, item) ==
  IF item.kind = "dict"
  THEN LET e == TrialError(item, n + 1)
       IN IF e = "none"
          THEN [b |-> ArrowBlockBuilder_add(ArrowBlockBuilder_init(n + 1), item).b,
                n |-> n + 1, err |-> "none"]
          ELSE IF e \in TrialCaught
          THEN [b |-> SimpleBlockBuilder_init(n + 2), n |-> n + 2, err |-> "none"]
          ELSE [b |-> NoBuilder, n |-> n + 1, err |-> e]
  ELSE [b |-> SimpleBlockBuilder_init(n + 1), n |-> n + 1, err |-> "none"]

\* The body of `if self._builder is None:` in add: the builder chosen for
\* the first item, [b, n, err]; err is an exception the try block lets through.
DelegatingSelect(n, item) ==
  IF item.kind = "dict"
  THEN LET e == TrialError(item, n + 1)
       IN IF e = "none"
          THEN [b |-> ArrowBlockBuilder_init(n + 2), n |-> n + 2, err |-> "none"]
          ELSE IF e \in TrialCaught
          THEN [b |-> SimpleBlockBuilder_init(n + 2), n |-> n + 2, err |-> "none"]
          ELSE [b |-> NoBuilder, n |-> n + 1, err |-> e]
  ELSE [b |-> SimpleBlockBuilder_init(n + 1), n |-> n + 1, err |-> "none"]

\* The choice is made again on every add, not only while _builder is None.
DelegatingArrowBlockBuilder_add_Retrial(b, n, item) ==
  LET sel == DelegatingSelect(n, item)
  IN IF sel.err # "none" THEN [b |-> b, n |-> sel.n, err |-> sel.err]
     ELSE LET r == Builder_add(sel.b, item)
          IN [b |-> r.b, n |-> sel.n, err |-> r.err]

\* DelegatingArrowBlockBuilder.add: [b, n, err]
DelegatingArrowBlockBuilder_add(b, n, item) ==
  LET sel == IF b.kind = "none" THEN DelegatingSelect(n, item)
             ELSE [b |-> b, n |-> n, err |-> "none"]
  IN IF sel.err # "none" THEN [b |-> b, n |-> sel.n, err |-> sel.err]
     ELSE LET r == Builder_add(sel.b, item)
          IN [b |-> r.b, n |-> sel.n, err |-> r.err]

\* add_block keeps the builder it made in a local only: _builder stays None.
DelegatingArrowBlockBuilder_add_block_NoCommit(b, n, block) ==
  LET cur == IF b.kind = "none" THEN for_block_builder(block, n + 1) ELSE b
      r == Builder_add_block(cur, block)
  IN [b |-> IF b.kind = "none" THEN b ELSE r.b,
      n |-> IF b.kind = "none" THEN n + 1 ELSE n, err |-> r.err]

\* DelegatingArrowBlockBuilder.add_block: [b, n, err]
DelegatingArrowBlockBuilder_add_block(b, n, block) ==
  LET cur == IF b.kind = "none" THEN for_block_builder(block, n + 1) ELSE b
      r == Builder_add_block(cur, block)
  IN [b |-> r.b, n |-> IF b.kind = "none" THEN n + 1 ELSE n, err |-> r.err]

\* build() catches the table library's error and falls back to a simple
\* builder.
DelegatingArrowBlockBuilder_build_Fallback(b, n) ==
  LET cur == IF b.kind = "none" THEN ArrowBlockBuilder_init(n + 1) ELSE b
      m == IF b.kind = "none" THEN n + 1 ELSE n
      r == Builder_build(cur)
  IN IF r.err \in TrialCaught
     THEN [b |-> SimpleBlockBuilder_init(m + 1), n |-> m + 1,
           err |-> "none", block |-> ListBlock(<<>>)]
     ELSE [b |-> cur, n |-> m, err |-> r.err, block |-> r.block]

\* build() of an undecided builder builds a temporary ArrowBlockBuilder and
\* leaves _builder None.
DelegatingArrowBlockBuilder_build_NoCommit(b, n) ==
  LET cur == IF b.kind = "none" THEN ArrowBlockBuilder_init(n + 1) ELSE b
      r == Builder_build(cur)
  IN [b |-> b, n |-> IF b.kind = "none" THEN n + 1 ELSE n,
      err |-> r.err, block |-> r.block]

\* build() constructs a new ArrowBlockBuilder whether or not one is set.
DelegatingArrowBlockBuilder_build_AlwaysNew(b, n) ==
  LET cur == ArrowBlockBuilder_init(n + 1)
      r == Builder_build(cur)
  IN [b |-> cur, n |-> n + 1, err |-> r.err, block |-> r.block]

\* build() of an undecided builder defaults to the simple representation.
DelegatingArrowBlockBuilder_build_DefaultSimple(b, n) ==
  LET cur == IF b.kind = "none" THEN SimpleBlockBuilder_init(n + 1) ELSE b
      r == Builder_build(cur)
  IN [b |-> cur, n |-> IF b.kind = "none" THEN n + 1 ELSE n,
      err |-> r.err, block |-> r.block]

\* DelegatingArrowBlockBuilder.build: [b, n, err, block]
DelegatingArrowBlockBuilder_build(b, n) ==
  LET cur == IF b.kind = "none" THEN ArrowBlockBuilder_init(n + 1) ELSE b
      r == Builder_build(cur)
  IN [b |-> cur, n |-> IF b.kind = "none" THEN n + 1 ELSE n,
      err |-> r.err, block |-> r.block]

\* DelegatingArrowBlockBuilder.num_rows
DelegatingArrowBlockBuilder_num_rows(b) ==
  IF b.kind # "none" THEN Builder_num_rows(b) ELSE 0

(***************************************************************************)
(* ArrowBlockAccessor over self._table, and the pyarrow / pandas calls it  *)
(* makes.                                                                  *)
(***************************************************************************)
Min(a, b) == IF a < b THEN a ELSE b

\* pyarrow.Table.slice(offset, length), 0 <= offset: a view of the rows
\* offset .. offset + length - 1 that exist
TableSlice(t, offset, length) ==
  LET n == TableNumRows(t)
      from == Min(offset, n)
      to == IF length < 0 THEN from ELSE Min(offset + length, n)
  IN Table(t.names, t.types,
           [c \in 1..Len(t.cols) |-> SubSeq(t.cols[c], from + 1, to)])

\* c.to_pandas() of one column: a pandas Series, [dtype, vals]
ColumnToPandas(type, vals) ==
  [dtype |-> IF type = "int" THEN "int64" ELSE "object", vals |-> vals]

\* pyarrow.Table.from_arrays(arrays, schema=schema): each Series is
\* converted to the type the schema gives its column
FromArrays(arrays, names, types) ==
  IF Len(arrays) # Len(names) THEN Raise("ValueError")
  ELSE IF \E c \in 1..Len(arrays) :
            \E i \in 1..Len(arrays[c].vals) : arrays[c].vals[i].t # types[c]
  THEN Raise("ArrowInvalid")
  ELSE Ok(Table(names, types, [c \in 1..Len(arrays) |-> arrays[c].vals]))

\* slice with `end` passed as the length of the view
ArrowBlockAccessor_slice_EndAsLength(t, start, end, copy) ==
  LET view == TableSlice(t, start, end)
  IN IF copy
     THEN FromArrays([c \in 1..Len(view.cols) |->
                        ColumnToPandas(view.types[c], view.cols[c])],
                     t.names, t.types)
     ELSE Ok(view)

\* ArrowBlockAccessor.slice: [err, table]
ArrowBlockAccessor_slice(t, start, end, copy) ==
  LET view == TableSlice(t, start, end - start)
  IN IF copy
     THEN FromArrays([c \in 1..Len(view.cols) |->
                        ColumnToPandas(view.types[c], view.cols[c])],
                     t.names, t.types)
     ELSE Ok(view)

\* no Iter object bound to the name
NoIter == [made |-> FALSE, cur |-> 0 - 1, out |-> <<>>, stops |-> 0]

\* the cursor starts on the first row: __next__ moves past it before reading
Iter_init_AtZero == [made |-> TRUE, cur |-> 0, out |-> <<>>, stops |-> 0]

\* Iter.__init__: out and stops record what __next__ has returned and how
\* often it has raised StopIteration
Iter_init == [made |-> TRUE, cur |-> 0 - 1, out |-> <<>>, stops |-> 0]

\* Iter.__next__ on the accessor's table t
Iter_next(t, it) ==
  LET cur == it.cur + 1
  IN IF cur < TableNumRows(t)
     THEN [it EXCEPT !.cur = cur,
                     !.out = Append(it.out, RowItem(TableSlice(t, cur, 1)))]
     ELSE [it EXCEPT !.cur = cur, !.stops = it.stops + 1]

\* the names the caller binds Iter objects to
Iters == {"it1", "it2"}

NoSlice ==
  [called |-> FALSE, start |-> 0, end |-> 0, copy |-> FALSE,
   err |-> "none", table |-> EmptyTable]

(***************************************************************************)
(* The caller: one action per method call.                                 *)
(***************************************************************************)
NoRet == [op |-> "none", err |-> "none", block |-> NoneBlock, n |-> 0]

Entry(op, item, block, err) ==
  [op |-> op, item |-> item, block |-> block, err |-> err]

\* The caller holds either a DelegatingArrowBlockBuilder (_builder = None)
\* or an ArrowBlockBuilder, freshly constructed.
Init ==
  /\ target \in {"delegating", "arrow"}
  /\ builder = IF target = "arrow" THEN ArrowBlockBuilder_init(1) ELSE NoBuilder
  /\ nalloc = IF target = "arrow" THEN 1 ELSE 0
  /\ ret = NoRet
  /\ log = <<>>
  /\ inputs = <<>>
  /\ table = EmptyTable
  /\ iters = [it \in Iters |-> NoIter]
  /\ sliced = NoSlice

DelegatingAdd(item) ==
  /\ target = "delegating"
  /\ Len(log) < MaxCalls
  /\ LET r == DelegatingArrowBlockBuilder_add(builder, nalloc, item)
     IN /\ builder' = r.b
        /\ nalloc' = r.n
        /\ ret' = [NoRet EXCEPT !.op = "add", !.err = r.err]
        /\ log' = Append(log, Entry("add", item, NoneBlock, r.err))
  /\ UNCHANGED <<target, accVars>>

DelegatingAddBlock(block) ==
  /\ target = "delegating"
  /\ Len(log) < MaxCalls
  /\ LET r == DelegatingArrowBlockBuilder_add_block(builder, nalloc, block)
     IN /\ builder' = r.b
        /\ nalloc' = r.n
        /\ ret' = [NoRet EXCEPT !.op = "add_block", !.err = r.err]
        /\ log' = Append(log, Entry("add_block", NoItem, block, r.err))
  /\ UNCHANGED <<target, accVars>>

DelegatingBuild ==
  /\ target = "delegating"
  /\ Len(log) < MaxCalls
  /\ LET r == DelegatingArrowBlockBuilder_build(builder, nalloc)
     IN /\ builder' = r.b
        /\ nalloc' = r.n
        /\ ret' = [NoRet EXCEPT !.op = "build", !.err = r.err, !.block = r.block]
        /\ log' = Append(log, Entry("build", NoItem, NoneBlock, r.err))
  /\ UNCHANGED <<target, accVars>>

DelegatingNumRows ==
  /\ target = "delegating"
  /\ Len(log) < MaxCalls
  /\ ret' = [NoRet EXCEPT !.op = "num_rows",
                          !.n = DelegatingArrowBlockBuilder_num_rows(builder)]
  /\ log' = Append(log, Entry("num_rows", NoItem, NoneBlock, "none"))
  /\ UNCHANGED <<target, builder, nalloc, accVars>>

ArrowAdd(item) ==
  /\ target = "arrow"
  /\ Len(log) < MaxCalls
  /\ LET r == ArrowBlockBuilder_add(builder, item)
     IN /\ builder' = r.b
        /\ ret' = [NoRet EXCEPT !.op = "add", !.err = r.err]
        /\ log' = Append(log, Entry("add", item, NoneBlock, r.err))
  /\ UNCHANGED <<target, nalloc, accVars>>

ArrowAddBlock(block) ==
  /\ target = "arrow"
  /\ Len(log) < MaxCalls
  /\ LET r == ArrowBlockBuilder_add_block(builder, block)
     IN /\ builder' = r.b
        /\ ret' = [NoRet EXCEPT !.op = "add_block", !.err = r.err]
        /\ log' = Append(log, Entry("add_block", NoItem, block, r.err))
  /\ UNCHANGED <<target, nalloc, accVars>>

\* build() keeps the built table as the only merged table and clears the
\* pending columns.
ArrowBuild_Consumes ==
  /\ target = "arrow"
  /\ Len(log) < MaxCalls
  /\ LET r == Builder_build(builder)
     IN /\ ret' = [NoRet EXCEPT !.op = "build", !.err = r.err, !.block = r.block]
        /\ log' = Append(log, Entry("build", NoItem, NoneBlock, r.err))
        /\ builder' = IF r.err = "none"
                      THEN [builder EXCEPT !.columns = <<>>,
                                           !.tables = <<r.block.table>>]
                      ELSE builder
  /\ UNCHANGED <<target, nalloc, accVars>>

ArrowBuild ==
  /\ target = "arrow"
  /\ Len(log) < MaxCalls
  /\ LET r == Builder_build(builder)
     IN /\ ret' = [NoRet EXCEPT !.op = "build", !.err = r.err, !.block = r.block]
        /\ log' = Append(log, Entry("build", NoItem, NoneBlock, r.err))
  /\ UNCHANGED <<target, builder, nalloc, accVars>>

ArrowNumRows ==
  /\ target = "arrow"
  /\ Len(log) < MaxCalls
  /\ ret' = [NoRet EXCEPT !.op = "num_rows",
                          !.n = ArrowBlockBuilder_num_rows(builder)]
  /\ log' = Append(log, Entry("num_rows", NoItem, NoneBlock, "none"))
  /\ UNCHANGED <<target, builder, nalloc, accVars>>

Next ==
  \/ \E item \in Items : DelegatingAdd(item)
  \/ \E block \in Blocks : DelegatingAddBlock(block)
  \/ DelegatingBuild
  \/ DelegatingNumRows
  \/ \E item \in Items : ArrowAdd(item)
  \/ \E block \in Blocks : ArrowAddBlock(block)
  \/ ArrowBuild
  \/ ArrowNumRows

Spec == Init /\ [][Next]_vars

(***************************************************************************)
(* Reading a built block: an ArrowBlockAccessor over the table that an     *)
(* ArrowBlockBuilder built from the rows `inputs`.                         *)
(***************************************************************************)
RowInputs ==
  { DictItem(<<>>),
    DictItem(<<KV("a", IntV(1))>>),
    DictItem(<<KV("a", IntV(2))>>),
    DictItem(<<KV("a", IntV(1)), KV("b", StrV(1))>>),
    DictItem(<<KV("b", StrV(2)), KV("a", IntV(2))>>) }

\* b = ArrowBlockBuilder(); for row in rows: b.add(row)
RECURSIVE AddAll(_, _)
AddAll(b, rows) ==
  IF Len(rows) = 0 THEN b
  ELSE AddAll(ArrowBlockBuilder_add(b, rows[1]).b, Tail(rows))

AccInit ==
  /\ inputs \in UNION {[1..n -> RowInputs] : n \in 0..MaxRows}
  /\ target = "arrow"
  /\ builder = AddAll(ArrowBlockBuilder_init(1), inputs)
  /\ ArrowBlockBuilder_build(builder).err = "none"
  /\ table = ArrowBlockBuilder_build(builder).table
  /\ nalloc = 1
  /\ ret = NoRet
  /\ log = <<>>
  /\ iters = [it \in Iters |-> NoIter]
  /\ sliced = NoSlice

\* it = accessor.iter_rows()
AccIterRows(it) ==
  /\ iters' = [iters EXCEPT ![it] = Iter_init]
  /\ UNCHANGED <<target, builder, nalloc, ret, log, inputs, table, sliced>>

\* next(it); a second StopIteration is the last call made on an iterator
AccNext(it) ==
  /\ iters[it].made
  /\ iters[it].cur < TableNumRows(table) + 1
  /\ iters' = [iters EXCEPT ![it] = Iter_next(table, iters[it])]
  /\ UNCHANGED <<target, builder, nalloc, ret, log, inputs, table, sliced>>

\* accessor.slice(start, end, copy)
AccSlice(start, end, copy) ==
  /\ start <= end
  /\ LET r == ArrowBlockAccessor_slice(table, start, end, copy)
     IN sliced' = [called |-> TRUE, start |-> start, end |-> end, copy |-> copy,
                   err |-> r.err, table |-> r.table]
  /\ UNCHANGED <<target, builder, nalloc, ret, log, inputs, table, iters>>

AccessorNext ==
  \/ \E it \in Iters : AccIterRows(it)
  \/ \E it \in Iters : AccNext(it)
  \/ \E start, end \in 0..TableNumRows(table) : \E copy \in BOOLEAN :
       AccSlice(start, end, copy)

SpecAccessor == AccInit /\ [][AccessorNext]_vars

(***************************************************************************)
(* What the caller has observed: derived from the log of calls.            *)
(***************************************************************************)
Last(s) == s[Len(s)]

\* num_rows() as the caller would get it in the current state
NumRowsNow ==
  IF target = "arrow" THEN ArrowBlockBuilder_num_rows(builder)
  ELSE DelegatingArrowBlockBuilder_num_rows(builder)

\* rows of a block, whatever its representation
BlockRowCount(block) ==
  IF block.kind = "table" THEN TableNumRows(block.table) ELSE Len(block.list)

\* rows contributed by the successful add / add_block calls of a log
RECURSIVE ContributedCount(_)
ContributedCount(l) ==
  IF Len(l) = 0 THEN 0
  ELSE ContributedCount(Tail(l)) +
       (IF l[1].err # "none" THEN 0
        ELSE IF l[1].op = "add" THEN 1
        ELSE IF l[1].op = "add_block" THEN BlockRowCount(l[1].block)
        ELSE 0)

\* a row as the set of its (column, value) pairs: column order is ignored
RowOfDict(d) == {d[i] : i \in 1..Len(d)}

RowsOfTable(t) ==
  [r \in 1..TableNumRows(t) |->
     {KV(t.names[c], t.cols[c][r]) : c \in 1..Len(t.names)}]

\* the rows contributed to a columnar builder, in call order
RECURSIVE ContributedRows(_)
ContributedRows(l) ==
  IF Len(l) = 0 THEN <<>>
  ELSE (IF l[1].err # "none" THEN <<>>
        ELSE IF l[1].op = "add"
          THEN <<RowOfDict(IF l[1].item.kind = "row"
                           THEN as_pydict(l[1].item).d ELSE l[1].item.d)>>
        ELSE IF l[1].op = "add_block" THEN RowsOfTable(l[1].block.table)
        ELSE <<>>)
       \o ContributedRows(Tail(l))

\* the row objects contributed to a simple builder, in call order
RECURSIVE ContributedItems(_)
ContributedItems(l) ==
  IF Len(l) = 0 THEN <<>>
  ELSE (IF l[1].err # "none" THEN <<>>
        ELSE IF l[1].op = "add" THEN <<l[1].item>>
        ELSE IF l[1].op = "add_block" THEN l[1].block.list
        ELSE <<>>)
       \o ContributedItems(Tail(l))

\* the table library alone rejects the one-row table of a mapping with a
\* type/shape error
LibraryRejects(item) ==
  /\ item.kind = "dict"
  /\ FromPydict([i \in 1..Len(item.d) |->
                   [name |-> item.d[i].k, vals |-> <<item.d[i].v>>]]).err
       \in {"TypeError", "ArrowInvalid"}

BuiltTable == ret.op = "build" /\ ret.err = "none" /\ ret.block.kind = "table"

(***************************************************************************)
(* C1: the table returned by a successful build() of a columnar builder    *)
(* (direct, or selected by the delegating builder) has exactly num_rows()  *)
(* rows, rows that are empty mappings included.                            *)
(***************************************************************************)
C1_BuiltRowCountIsNumRows ==
  (BuiltTable /\ builder.kind = "arrow")
    => TableNumRows(ret.block.table) = NumRowsNow

(***************************************************************************)
(* C2: build() after add / add_block returns the contributed rows in the   *)
(* order of the calls.  Stated for the builds whose row count is the       *)
(* number of contributed rows, so that it speaks of the order alone.       *)
(***************************************************************************)
C2_RowsInCallOrder ==
  (/\ BuiltTable
   /\ builder.kind = "arrow"
   /\ TableNumRows(ret.block.table) = Len(ContributedRows(log)))
    => RowsOfTable(ret.block.table) = ContributedRows(log)

(***************************************************************************)
(* C3: in every state num_rows() is the number of successful add calls     *)
(* plus the rows of the blocks merged by successful add_block calls.       *)
(***************************************************************************)
C3_NumRowsIsContributed == NumRowsNow = ContributedCount(log)

C3_Witness ==
  /\ target = "delegating"
  /\ builder.kind = "arrow"
  /\ Len(log) = 3
  /\ log[1].op = "add"
  /\ \E i \in 2..3 : log[i].op = "add_block" /\ log[i].err = "none"
  /\ NumRowsNow = 4

(***************************************************************************)
(* C4: the delegating builder's choice is terminal: once _builder is set,  *)
(* no call, successful or failing, changes the representation or replaces  *)
(* the concrete builder object.                                            *)
(***************************************************************************)
C4_ChoiceIsTerminal ==
  [][(target = "delegating" /\ builder.kind # "none")
       => (builder'.kind = builder.kind /\ builder'.id = builder.id)]_vars

C4_Witness ==
  /\ target = "delegating"
  /\ builder.kind = "simple"
  /\ Len(log) = 4
  /\ log[1].op = "add"
  /\ log[2].op = "add_block" /\ log[2].err # "none"
  /\ log[3].op = "build"
  /\ log[4].op = "add" /\ log[4].item.kind = "dict"

(***************************************************************************)
(* C5: when the first call on a fresh delegating builder is add of an item *)
(* that is not a dict, the builder is simple from then on, every later add *)
(* succeeds and appends its item as an opaque row, in order.               *)
(***************************************************************************)
C5_NonMappingFirstStaysSimple ==
  (/\ target = "delegating"
   /\ Len(log) >= 1
   /\ log[1].op = "add"
   /\ log[1].item.kind # "dict")
    => /\ builder.kind = "simple"
       /\ \A i \in 1..Len(log) : log[i].op = "add" => log[i].err = "none"
       /\ builder.items = ContributedItems(log)
       /\ ret.op = "build"
            => ret.err = "none" /\ ret.block = ListBlock(ContributedItems(log))

\* scenario B: add "x", add {"a": 1}, build
C5_Witness ==
  /\ target = "delegating"
  /\ Len(log) = 3
  /\ log[1].op = "add" /\ log[1].item = OtherItem
  /\ log[2].op = "add" /\ log[2].item = DictItem(<<KV("a", IntV(1))>>)
  /\ ret.op = "build"
  /\ ret.block.list = <<OtherItem, DictItem(<<KV("a", IntV(1))>>)>>

(***************************************************************************)
(* C6: a fresh delegating builder given only mappings of one consistent    *)
(* schema that the table library accepts, and then build(), is columnar    *)
(* and the built table has one row per item, each column holding the       *)
(* items' values in add order.                                             *)
(***************************************************************************)
SchemaOfDict(d) == {<<d[i].k, d[i].v.t>> : i \in 1..Len(d)}

ConsistentMappings(l) ==
  \A i \in 1..Len(l) :
    /\ l[i].op = "add"
    /\ l[i].item.kind = "dict"
    /\ ~LibraryRejects(l[i].item)
    /\ SchemaOfDict(l[i].item.d) = SchemaOfDict(l[1].item.d)

C6_ConsistentMappingsBuildColumnar ==
  (/\ target = "delegating"
   /\ Len(log) >= 1
   /\ Last(log).op = "build"
   /\ ConsistentMappings(SubSeq(log, 1, Len(log) - 1)))
    => /\ builder.kind = "arrow"
       /\ BuiltTable
       /\ TableNumRows(ret.block.table) = Len(log) - 1
       /\ RowsOfTable(ret.block.table) = ContributedRows(log)

(***************************************************************************)
(* C7: when the first add on a fresh delegating builder is a mapping whose *)
(* trial construction the table library rejects with a TypeError or an     *)
(* ArrowInvalid, add returns normally, the builder is simple, holds the    *)
(* item, and num_rows() is 1.                                              *)
(***************************************************************************)
C7_RejectedTrialFallsBackToSimple ==
  (/\ target = "delegating"
   /\ Len(log) >= 1
   /\ log[1].op = "add"
   /\ LibraryRejects(log[1].item))
    => /\ log[1].err = "none"
       /\ builder.kind = "simple"
       /\ Len(log) = 1
            => /\ builder.items = <<log[1].item>>
               /\ NumRowsNow = 1

C7_Witness ==
  /\ target = "delegating"
  /\ Len(log) = 1
  /\ log[1].op = "add"
  /\ log[1].item = DictItem(<<KV("a", Obj)>>)
  /\ builder.kind = "simple"

(***************************************************************************)
(* C8: an add on a delegating builder that is already columnar, of an item *)
(* that is not a mapping or is a mapping the table library rejects, goes   *)
(* to the columnar builder unvalidated and never switches the builder to   *)
(* simple: the non-mapping fails in add, the rejected mapping is appended  *)
(* to the columns and makes this and every later build() fail.             *)
(***************************************************************************)
C8_Step ==
  (/\ target = "delegating"
   /\ builder.kind = "arrow"
   /\ Len(log') = Len(log) + 1
   /\ Last(log').op = "add"
   /\ (Last(log').item.kind = "other" \/ LibraryRejects(Last(log').item)))
    => /\ builder'.kind = "arrow"
       /\ builder'.id = builder.id
       /\ Last(log').item.kind = "other"
            => ret'.err = "ValueError" /\ builder' = builder
       /\ LibraryRejects(Last(log').item)
            => /\ ret'.err = "none"
               /\ builder'.columns =
                    ColumnsExtend(builder.columns, Last(log').item.d)
               /\ ArrowBlockBuilder_build(builder').err
                    \in {"TypeError", "ArrowInvalid"}

C8_LaterBuildsFail ==
  (target = "delegating" /\ builder.kind = "arrow")
    => \A i \in 1..Len(log) :
         (log[i].op = "add" /\ LibraryRejects(log[i].item))
           => \A j \in (i + 1)..Len(log) :
                log[j].op = "build" => log[j].err \in {"TypeError", "ArrowInvalid"}

\* C8: both parts: a columnar delegating builder never re-validates or
\* re-routes an incompatible add; the failure surfaces in add or in build.
C8_NoRevalidationAfterColumnar == []C8_LaterBuildsFail /\ [][C8_Step]_vars

C8_Witness ==
  /\ target = "delegating"
  /\ builder.kind = "arrow"
  /\ Len(log) = 4
  /\ log[1].op = "add" /\ log[1].item = DictItem(<<KV("a", IntV(1))>>)
  /\ log[2].op = "add" /\ log[2].item = OtherItem /\ log[2].err = "ValueError"
  /\ log[3].op = "add" /\ log[3].item = DictItem(<<KV("a", Obj)>>)
  /\ log[4].op = "build" /\ log[4].err = "ArrowInvalid"

(***************************************************************************)
(* C9: on a fresh delegating builder num_rows() returns 0 and build()      *)
(* returns an empty table: columnar, zero rows, no columns.                *)
(***************************************************************************)
C9_FreshBuilder ==
  (target = "delegating" /\ Len(log) = 1)
    => /\ ret.op = "num_rows" => ret.n = 0
       /\ ret.op = "build"
            => /\ ret.err = "none"
               /\ ret.block.kind = "table"
               /\ TableNumRows(ret.block.table) = 0
               /\ Len(ret.block.table.names) = 0

C9_Witness ==
  /\ target = "delegating"
  /\ Len(log) = 1
  /\ ret.op = "build"
  /\ ret.block = TableBlock(EmptyTable)

\* the last call was add, on a columnar builder, of an item that is neither
\* a dict nor an ArrowRow
C10_NonMappingAdd ==
  /\ builder.kind = "arrow"
  /\ ret.op = "add"
  /\ Last(log).item.kind = "other"

(***************************************************************************)
(* C10: add on a columnar builder of an item that is neither a mapping nor *)
(* a Row View raises a TypeError to the caller of add.                     *)
(***************************************************************************)
C10_RaisesTypeError == C10_NonMappingAdd => ret.err = "TypeError"

(***************************************************************************)
(* C10 as amended: that add raises a ValueError to the caller of add.      *)
(***************************************************************************)
C10_RaisesValueError == C10_NonMappingAdd => ret.err = "ValueError"

C10_Witness ==
  /\ target = "arrow"
  /\ Len(log) = 2
  /\ log[1].op = "add" /\ log[1].err = "none"
  /\ C10_NonMappingAdd
  /\ ret.err = "ValueError"

(***************************************************************************)
(* C11: add_block as the first call on a delegating builder takes the      *)
(* builder of the block's own accessor (columnar for a table), constructs  *)
(* no trial builder, then or later, and every later add goes to the chosen *)
(* builder as it is.                                                       *)
(***************************************************************************)
C11_AddBlockChoosesByAccessor ==
  (/\ target = "delegating"
   /\ Len(log) >= 1
   /\ log[1].op = "add_block")
    => /\ log[1].err = "none"
       /\ builder.kind = (IF log[1].block.kind = "table" THEN "arrow" ELSE "simple")
       /\ builder.id = 1
       /\ nalloc = 1
       /\ \A i \in 2..Len(log) :
            log[i].op = "add"
              => log[i].err = (IF builder.kind = "arrow" /\ log[i].item.kind = "other"
                               THEN "ValueError" ELSE "none")

C11_Witness ==
  /\ target = "delegating"
  /\ Len(log) = 3
  /\ log[1].op = "add_block" /\ log[1].block.kind = "table"
  /\ log[2].op = "add" /\ log[2].item = DictItem(<<KV("a", Obj)>>)
  /\ log[3].op = "add" /\ log[3].item = OtherItem
  /\ builder.kind = "arrow"
  /\ nalloc = 1

(***************************************************************************)
(* The parts a columnar build() is made of, as the caller knows them.      *)
(***************************************************************************)
\* the tables merged by the successful add_block calls, in call order
RECURSIVE MergedTables(_)
MergedTables(l) ==
  IF Len(l) = 0 THEN <<>>
  ELSE (IF l[1].op = "add_block" /\ l[1].err = "none" /\ l[1].block.kind = "table"
        THEN <<l[1].block.table>> ELSE <<>>)
       \o MergedTables(Tail(l))

RECURSIVE RowsOfTables(_)
RowsOfTables(ts) ==
  IF Len(ts) = 0 THEN <<>>
  ELSE RowsOfTable(ts[1]) \o RowsOfTables(Tail(ts))

\* the table of the pending columns (if there is any column), then the merged tables
BuildParts(b, l) ==
  (IF Len(b.columns) > 0 THEN <<FromPydict(b.columns).table>> ELSE <<>>)
    \o MergedTables(l)

\* the table library cannot materialize the pending columns, or the parts
\* to concatenate do not share one schema
LibraryRejectsBuild(b) ==
  \/ Len(b.columns) > 0 /\ FromPydict(b.columns).err # "none"
  \/ LET parts == (IF Len(b.columns) > 0
                   THEN <<FromPydict(b.columns).table>> ELSE <<>>) \o b.tables
     IN \E i, j \in 1..Len(parts) :
          parts[i].names # parts[j].names \/ parts[i].types # parts[j].types

(***************************************************************************)
(* C12: a successful columnar build() returns the table materialized from  *)
(* the pending columns (only if there is a pending column) followed by the *)
(* merged tables in add_block order; with nothing added, the empty table   *)
(* without columns.                                                        *)
(***************************************************************************)
C12_BuildIsMaterializedThenMerged ==
  (builder.kind = "arrow" /\ BuiltTable)
    => LET parts == BuildParts(builder, log)
           t == ret.block.table
       IN IF Len(parts) = 0 THEN t = EmptyTable
          ELSE /\ t.names = parts[1].names
               /\ t.types = parts[1].types
               /\ RowsOfTable(t) = RowsOfTables(parts)

C12_Witness ==
  /\ builder.kind = "arrow"
  /\ BuiltTable
  /\ Len(builder.columns) > 0
  /\ Len(MergedTables(log)) = 2
  /\ TableNumRows(ret.block.table) = 5

(***************************************************************************)
(* C13: when build() is called on a delegating builder that is columnar    *)
(* and the table library rejects the materialization of the pending        *)
(* columns or the concatenation, the TypeError / ArrowInvalid reaches the  *)
(* caller of build() and the builder stays as it was: no fallback to the   *)
(* simple representation.                                                  *)
(***************************************************************************)
C13_BuildErrorPropagates ==
  [][(/\ target = "delegating"
      /\ builder.kind = "arrow"
      /\ Len(log') = Len(log) + 1
      /\ Last(log').op = "build"
      /\ LibraryRejectsBuild(builder))
       => /\ ret'.op = "build"
          /\ ret'.err \in {"TypeError", "ArrowInvalid"}
          /\ Last(log').err = ret'.err
          /\ builder' = builder]_vars

C13_Witness ==
  /\ target = "delegating"
  /\ builder.kind = "arrow"
  /\ Len(log) = 3
  /\ log[1].op = "add" /\ log[1].item = DictItem(<<KV("a", IntV(1))>>)
  /\ log[2].op = "add" /\ log[2].item = DictItem(<<KV("a", StrV(1))>>)
  /\ ret.op = "build" /\ ret.err = "ArrowInvalid"

(***************************************************************************)
(* The rows added to a columnar builder, as the caller knows them.         *)
(***************************************************************************)
\* the mappings of the successful add calls, in call order
RECURSIVE AddedDicts(_)
AddedDicts(l) ==
  IF Len(l) = 0 THEN <<>>
  ELSE (IF l[1].op = "add" /\ l[1].err = "none"
        THEN <<IF l[1].item.kind = "row" THEN as_pydict(l[1].item).d
               ELSE l[1].item.d>>
        ELSE <<>>)
       \o AddedDicts(Tail(l))

KeysOfDict(d) == [i \in 1..Len(d) |-> d[i].k]
KeySetOfDict(d) == {d[i].k : i \in 1..Len(d)}

RECURSIVE AllKeys(_)
AllKeys(ds) ==
  IF Len(ds) = 0 THEN <<>> ELSE KeysOfDict(ds[1]) \o AllKeys(Tail(ds))

\* a sequence without the repetitions of its elements
RECURSIVE FirstOccurrences(_)
FirstOccurrences(ks) ==
  IF Len(ks) = 0 THEN <<>>
  ELSE LET front == FirstOccurrences(SubSeq(ks, 1, Len(ks) - 1))
       IN IF \E i \in 1..Len(front) : front[i] = Last(ks) THEN front
          ELSE Append(front, Last(ks))

\* the values of key k in the rows that have it, in row order
RECURSIVE ValuesOfKey(_, _)
ValuesOfKey(k, ds) ==
  IF Len(ds) = 0 THEN <<>>
  ELSE (IF k \in KeySetOfDict(ds[1])
        THEN <<ds[1][CHOOSE i \in 1..Len(ds[1]) : ds[1][i].k = k].v>>
        ELSE <<>>)
       \o ValuesOfKey(k, Tail(ds))

(***************************************************************************)
(* C17: in a columnar builder the pending columns are, in order of first   *)
(* encounter, the keys of the added rows, each holding the values of its   *)
(* key from the rows that have it, in add order; so all buffers are as     *)
(* long as the number of added rows exactly when all added rows have the   *)
(* same key set (no null-fill for a missing key).                          *)
(***************************************************************************)
C17_PendingColumns ==
  builder.kind = "arrow"
    => LET ds == AddedDicts(log)
           cs == builder.columns
       IN /\ [i \in 1..Len(cs) |-> cs[i].name] = FirstOccurrences(AllKeys(ds))
          /\ \A i \in 1..Len(cs) : cs[i].vals = ValuesOfKey(cs[i].name, ds)
          /\ (\A i \in 1..Len(cs) : Len(cs[i].vals) = Len(ds))
               <=> (\A i, j \in 1..Len(ds) : KeySetOfDict(ds[i]) = KeySetOfDict(ds[j]))

C17_Witness ==
  /\ builder.kind = "arrow"
  /\ Len(AddedDicts(log)) = 2
  /\ Len(builder.columns) = 2
  /\ builder.columns[1].name = "b"
  /\ Len(builder.columns[1].vals) = 2
  /\ builder.columns[2].name = "a"
  /\ Len(builder.columns[2].vals) = 1

(***************************************************************************)
(* C18: build() as the first call on a delegating builder commits it to    *)
(* the columnar builder made for that build: no later add runs a trial,    *)
(* and a later add of an item that is not a mapping raises in the columnar *)
(* builder; the simple representation is not selected.                     *)
(***************************************************************************)
C18_BuildCommitsToColumnar ==
  (/\ target = "delegating"
   /\ Len(log) >= 1
   /\ log[1].op = "build")
    => /\ builder.kind = "arrow"
       /\ builder.id = 1
       /\ nalloc = 1
       /\ \A i \in 2..Len(log) :
            (log[i].op = "add" /\ log[i].item.kind = "other")
              => log[i].err = "ValueError"

C18_Witness ==
  /\ target = "delegating"
  /\ Len(log) = 2
  /\ log[1].op = "build"
  /\ log[2].op = "add" /\ log[2].item = OtherItem
  /\ ret.err = "ValueError"
  /\ builder.kind = "arrow"

(***************************************************************************)
(* C19, C20: steps of a columnar builder.                                  *)
(***************************************************************************)
\* the step is a call of op on a builder that is columnar before the call
ColumnarCall(op) ==
  /\ builder.kind = "arrow"
  /\ Len(log') = Len(log) + 1
  /\ Last(log').op = op

C19_BuildStep ==
  ColumnarCall("build")
    => /\ builder' = builder
       /\ ret.op = "build" => ret' = ret

C19_Accumulated ==
  builder.kind = "arrow"
    => /\ builder.tables = MergedTables(log)
       /\ builder.num_rows = ContributedCount(log)
       /\ [i \in 1..Len(builder.columns) |-> builder.columns[i].name]
            = FirstOccurrences(AllKeys(AddedDicts(log)))
       /\ \A i \in 1..Len(builder.columns) :
            builder.columns[i].vals
              = ValuesOfKey(builder.columns[i].name, AddedDicts(log))

\* C19: build() on a columnar builder leaves the pending columns, the merged
\* tables and num_rows as they are: two builds in a row return the same
\* outcome, and whatever the builds in between, the builder holds all that
\* was added.
C19_BuildIsReadOnly == []C19_Accumulated /\ [][C19_BuildStep]_vars

C19_Witness ==
  /\ target = "arrow"
  /\ Len(log) = 4
  /\ log[1].op = "add" /\ log[1].err = "none"
  /\ log[2].op = "build"
  /\ log[3].op = "add_block" /\ log[3].err = "none"
  /\ log[4].op = "build"
  /\ BuiltTable
  /\ TableNumRows(ret.block.table) = 3

C20_RejectedStep ==
  (\/ ColumnarCall("add") /\ Last(log').item.kind = "other"
   \/ ColumnarCall("add_block") /\ Last(log').block.kind # "table")
    => /\ ret'.err = (IF Last(log').op = "add" THEN "ValueError"
                      ELSE "AssertionError")
       /\ builder' = builder
       /\ NumRowsNow' = NumRowsNow

\* C20: an add of an item that is not a mapping, or an add_block of a block
\* that is not a table, on a columnar builder (direct or behind a delegating
\* builder) raises and leaves columns, merged tables, num_rows and the
\* selected representation as they were.
C20_RejectedCallChangesNothing == [][C20_RejectedStep]_vars

C20_Witness ==
  /\ target = "delegating"
  /\ builder.kind = "arrow"
  /\ Len(log) = 3
  /\ log[1].op = "add" /\ log[1].err = "none"
  /\ log[2].op = "add_block" /\ log[2].err = "none"
  /\ log[3].op = "add_block" /\ log[3].block.kind = "list"
  /\ ret.err = "AssertionError"
  /\ NumRowsNow = 3

(***************************************************************************)
(* Reading a built block.                                                  *)
(***************************************************************************)
\* the single-row table of row index i (from 0) of t
RowAt(t, i) ==
  Table(t.names, t.types, [c \in 1..Len(t.cols) |-> <<t.cols[c][i + 1]>>])

C14_Yields ==
  \A it \in Iters :
    iters[it].made =>
      LET r == iters[it]
          N == TableNumRows(table)
      IN /\ Len(r.out) = Min(r.cur + 1, N)
         /\ \A i \in 1..Len(r.out) : r.out[i] = RowItem(RowAt(table, i - 1))
         /\ (r.stops > 0) <=> (r.cur >= N)

C14_Independent ==
  \A i, j \in Iters : (i # j /\ iters'[i] # iters[i]) => iters'[j] = iters[j]

\* C14: an iterator returned by iter_rows() over a table of N rows yields
\* the single-row slices at index 0, 1, .. N-1 in this order and then stops
\* (after k calls of next it has yielded the first min(k, N) of them, and it
\* has raised StopIteration exactly when k > N); an iterator made by a new
\* iter_rows() call starts at row 0 again, and a step of one iterator leaves
\* every other iterator where it was.
C14_IterRowsYieldsEachRowOnce == []C14_Yields /\ [][C14_Independent]_vars

C14_Witness ==
  /\ TableNumRows(table) = 3
  /\ iters["it1"].stops = 1
  /\ Len(iters["it1"].out) = 3
  /\ iters["it2"].made
  /\ Len(iters["it2"].out) = 1
  /\ iters["it2"].stops = 0

\* the input rows all have the key set of the first one
ConsistentInputs ==
  \A i \in 1..Len(inputs) : KeySetOfDict(inputs[i].d) = KeySetOfDict(inputs[1].d)

\* C15: for a block built from input rows of one schema, an iterator run to
\* its end has yielded one row view per input row, and the mapping made of
\* the i-th view's items() equals the i-th input row, column order ignored.
C15_RoundTrip ==
  \A it \in Iters :
    (ConsistentInputs /\ iters[it].stops > 0)
      => /\ Len(iters[it].out) = Len(inputs)
         /\ \A i \in 1..Len(inputs) :
              RowOfDict(ArrowRow_items(iters[it].out[i])) = RowOfDict(inputs[i].d)

C16_SliceRows ==
  sliced.called =>
    /\ sliced.err = "none"
    /\ sliced.table.names = table.names
    /\ sliced.table.types = table.types
    /\ Len(sliced.table.cols) = Len(table.cols)
    /\ \A c \in 1..Len(table.cols) :
         sliced.table.cols[c] = SubSeq(table.cols[c], sliced.start + 1, sliced.end)

C16_SourceKept == table' = table

====
